---------------------------- MODULE Spec2Model ----------------------------
(***************************************************************************)
(* A model of oracle.py: the class HashMapper (a fixed-size open-addressing *)
(* table filled by linear probing) and the "different word" traversal of    *)
(* the example program, which strides through the table with a step        *)
(* derived from the word's SHA-256 digest.                                  *)
(*                                                                         *)
(* A word is identified with the integer value of its SHA-256 digest       *)
(* (int_hash in the source): distinct words have distinct digests, and     *)
(* every index and step the program derives from a word is a function of   *)
(* that integer alone.  Python's None is the integer -1, which is neither  *)
(* a word nor an index.                                                     *)
(***************************************************************************)
EXTENDS Integers, Sequences, FiniteSets, TLC

\* Bounds of the model.
MaxTableSize == 4
MaxDigest == 5
MaxBatch == 2
MaxHashValue == 40

None == -1

Words == 0..MaxDigest

TableSizes == 0..MaxTableSize

RECURSIVE SeqsUpTo(_, _)
SeqsUpTo(S, n) ==
  IF n = 0 THEN {<<>>}
  ELSE LET shorter == SeqsUpTo(S, n - 1)
       IN  shorter \cup {Append(q, x) : q \in shorter, x \in S}

Batches == SeqsUpTo(Words, MaxBatch)

VARIABLES
  table_size,      \* self.table_size
  table,           \* self.table: index -> word or None
  word_to_index,   \* self.word_to_index: a dict, its domain the inserted words
  index_to_word,   \* self.index_to_word: a dict, its domain the written indices
  pc,              \* "idle", "insert_while", "for_word", "find_while", "done"
  op,              \* the operation in progress or just finished
  word,            \* the word the running insert / traversal is about
  words,           \* insert_words: the words the for loop has still to take
  index,           \* insert: index
  original_index,  \* insert: original_index
  probe,           \* insert: probe
  hash_index,      \* traversal: hash_index
  step,            \* traversal: step
  probe_index,     \* traversal: probe_index
  start_probe,     \* traversal: start_probe
  found,           \* traversal: found
  examined,        \* number of evaluations of the while condition of insert
  iters,           \* number of iterations of the traversal's while loop
  outcome,         \* how the operation ended
  ret,             \* the value returned (get_index, get_word) or printed
  at_call          \* history: table, word_to_index, index_to_word and the
                   \* list as they were when insert_words was called

mapper == <<table_size, table, word_to_index, index_to_word>>

insert_locals == <<index, original_index, probe, examined>>

find_locals == <<hash_index, step, probe_index, start_probe, found, iters>>

vars == <<table_size, table, word_to_index, index_to_word, pc, op, word, words,
          index, original_index, probe, hash_index, step, probe_index,
          start_probe, found, examined, iters, outcome, ret, at_call>>

----------------------------------------------------------------------------
\* Dictionaries.

EmptyDict == [k \in {} |-> None]

\* d[k] = v
DictSet(d, k, v) == [x \in (DOMAIN d) \cup {k} |-> IF x = k THEN v ELSE d[x]]

\* d.get(k, None)
DictGet(d, k) == IF k \in DOMAIN d THEN d[k] ELSE None

\* get_index and get_word, as values.
get_index(w) == DictGet(word_to_index, w)

get_word(i) == DictGet(index_to_word, i)

----------------------------------------------------------------------------
\* Hash derivation.  Both are called only where the divisor is not zero;
\* the callers raise ZeroDivisionError otherwise.

int_hash(w) == w

_compute_hash(w) == int_hash(w) % table_size

\* Faulty variant: line 25 without the leading 1 +.
_compute_step_NoOffset(w) ==
  (int_hash(w) \div table_size) % (table_size - 1)

_compute_step(w) == 1 + ((int_hash(w) \div table_size) % (table_size - 1))

\* int_hash % self.table_size raises ZeroDivisionError
HashRaises == table_size = 0

\* ... % (self.table_size - 1) raises ZeroDivisionError
StepRaises == table_size - 1 = 0

----------------------------------------------------------------------------
\* The conditions and index computations of insert.

\* Faulty variant: the presence test of line 33 is missing.
AlreadyInserted_Never(w) == FALSE

AlreadyInserted(w) == w \in DOMAIN word_to_index

\* Faulty variant: the while condition of line 38 never sees a collision.
SlotTaken_Never(i) == FALSE

SlotTaken(i) == table[i] # None

\* Faulty variant: line 40 probes with the word's step (double hashing)
\* where the step exists.
NextIndex_DoubleHash(orig, p) ==
  IF StepRaises THEN (orig + p) % table_size
  ELSE (orig + p * _compute_step(word)) % table_size

\* Faulty variant: line 40 probes every second slot.
NextIndex_Stride2(orig, p) == (orig + 2 * p) % table_size

NextIndex(orig, p) == (orig + p) % table_size

\* Faulty variant: line 41 compares with > instead of >=.
TableExhausted_OffByOne(p) == p > table_size

TableExhausted(p) == p >= table_size

\* The conditions and index computations of the traversal.

\* Faulty variant: the membership test of line 79 is missing.
NotInMapper_Never(w) == FALSE

NotInMapper(w) == w \notin DOMAIN word_to_index

FirstProbe(h, s) == (h + s) % table_size

\* Faulty variant: line 88 without the "is not None" test.
IsDifferentWord_OnlyCompare(i, w) == table[i] # w

\* Faulty variant: line 88 without the comparison with the word itself.
IsDifferentWord_AnyWord(i, w) == table[i] # None

IsDifferentWord(i, w) == table[i] # None /\ table[i] # w

\* Faulty variant: line 92 reduces modulo table_size - 1, the modulus of
\* _compute_step.
NextProbe_StepModulus(p, s) == (p + s) % (table_size - 1)

NextProbe(p, s) == (p + s) % table_size

\* Faulty variant: line 93 compares with hash_index, not with start_probe.
FullCycle_AtHash(p, start) == p = hash_index

FullCycle(p, start) == p = start

\* Faulty variant: line 46 is missing, index_to_word is never written.
Place_NoInverse(w, i) ==
  /\ table' = [table EXCEPT ![i] = w]
  /\ word_to_index' = DictSet(word_to_index, w, i)
  /\ index_to_word' = index_to_word

\* Faulty variant: lines 44-46 use original_index, not the probed index.
Place_AtOrigin(w, i) ==
  /\ table' = [table EXCEPT ![original_index] = w]
  /\ word_to_index' = DictSet(word_to_index, w, original_index)
  /\ index_to_word' = DictSet(index_to_word, original_index, w)

\* insert, lines 44-46: the three assignments that place word w at index i.
Place(w, i) ==
  /\ table' = [table EXCEPT ![i] = w]
  /\ word_to_index' = DictSet(word_to_index, w, i)
  /\ index_to_word' = DictSet(index_to_word, i, w)

----------------------------------------------------------------------------
Init ==
  /\ table_size \in TableSizes
  /\ table = [i \in 0..(table_size - 1) |-> None]
  /\ word_to_index = EmptyDict
  /\ index_to_word = EmptyDict
  /\ pc = "idle"
  /\ op = "new"
  /\ word = None
  /\ words = <<>>
  /\ index = None
  /\ original_index = None
  /\ probe = 0
  /\ hash_index = None
  /\ step = 0
  /\ probe_index = None
  /\ start_probe = None
  /\ found = FALSE
  /\ examined = 0
  /\ iters = 0
  /\ outcome = "constructed"
  /\ ret = <<>>
  /\ at_call = <<>>

\* Faulty variant: insert_words returns after its first insert (a return
\* inside the for loop).
AfterInsert_ReturnInLoop(o, caller, rest) ==
  /\ outcome' = o
  /\ pc' = "done"
  /\ words' = <<>>

\* Where control goes when a call of insert ends with outcome o: back to the
\* for loop of insert_words after a normal return, to the caller otherwise
\* (an exception leaves insert_words too, and drops the words not yet taken).
AfterInsert(o, caller, rest) ==
  /\ outcome' = o
  /\ IF caller = "insert_words" /\ o = "return"
       THEN pc' = "for_word" /\ words' = rest
       ELSE pc' = "done" /\ words' = <<>>

\* Faulty variant: the word is recorded in word_to_index at its hash index
\* before the loop has found it a slot.
InsertEntry_EagerRecord(w, caller, rest) ==
  /\ op' = caller
  /\ word' = w
  /\ ret' = <<>>
  /\ UNCHANGED find_locals
  /\ UNCHANGED at_call
  /\ IF AlreadyInserted(w)
       THEN /\ AfterInsert("return", caller, rest)
            /\ index' = None /\ original_index' = None
            /\ probe' = 0 /\ examined' = 0
            /\ UNCHANGED mapper
       ELSE IF HashRaises
         THEN /\ AfterInsert("ZeroDivisionError", caller, rest)
              /\ index' = None /\ original_index' = None
              /\ probe' = 0 /\ examined' = 0
              /\ UNCHANGED mapper
         ELSE /\ index' = _compute_hash(w)
              /\ original_index' = _compute_hash(w)
              /\ probe' = 0
              /\ examined' = 0
              /\ pc' = "insert_while"
              /\ words' = rest
              /\ outcome' = "running"
              /\ word_to_index' = DictSet(word_to_index, w, _compute_hash(w))
              /\ UNCHANGED <<table_size, table, index_to_word>>

\* insert, lines 33-37: up to the while loop.
InsertEntry(w, caller, rest) ==
  /\ op' = caller
  /\ word' = w
  /\ ret' = <<>>
  /\ UNCHANGED mapper
  /\ UNCHANGED find_locals
  /\ UNCHANGED at_call
  /\ IF AlreadyInserted(w)
       THEN /\ AfterInsert("return", caller, rest)
            /\ index' = None /\ original_index' = None
            /\ probe' = 0 /\ examined' = 0
       ELSE IF HashRaises
         THEN /\ AfterInsert("ZeroDivisionError", caller, rest)
              /\ index' = None /\ original_index' = None
              /\ probe' = 0 /\ examined' = 0
         ELSE /\ index' = _compute_hash(w)
              /\ original_index' = _compute_hash(w)
              /\ probe' = 0
              /\ examined' = 0
              /\ pc' = "insert_while"
              /\ words' = rest
              /\ outcome' = "running"

Insert(w) ==
  /\ pc = "idle"
  /\ InsertEntry(w, "insert", <<>>)

\* insert, lines 38-46: one evaluation of the while condition, then either
\* the loop body or the three assignments after the loop.
InsertWhile ==
  /\ pc = "insert_while"
  /\ examined' = examined + 1
  /\ UNCHANGED <<table_size, op, word, original_index, ret, at_call>>
  /\ UNCHANGED find_locals
  /\ IF SlotTaken(index)
       THEN /\ probe' = probe + 1
            /\ index' = NextIndex(original_index, probe + 1)
            /\ UNCHANGED <<table, word_to_index, index_to_word>>
            /\ IF TableExhausted(probe + 1)
                 THEN AfterInsert("ValueError", op, words)
                 ELSE pc' = "insert_while" /\ outcome' = "running"
                      /\ UNCHANGED words
       ELSE /\ Place(word, index)
            /\ UNCHANGED <<probe, index>>
            /\ AfterInsert("return", op, words)

\* insert_words, line 56: the call.
InsertWords(ws) ==
  /\ pc = "idle"
  /\ pc' = "for_word"
  /\ op' = "insert_words"
  /\ words' = ws
  /\ at_call' = <<table, word_to_index, index_to_word, ws>>
  /\ word' = None
  /\ outcome' = "running"
  /\ ret' = <<>>
  /\ UNCHANGED mapper
  /\ UNCHANGED insert_locals
  /\ UNCHANGED find_locals

\* insert_words, lines 58-59: the for loop takes the next word, or ends.
ForWord ==
  /\ pc = "for_word"
  /\ IF words = <<>>
       THEN /\ pc' = "done"
            /\ outcome' = "return"
            /\ UNCHANGED <<op, word, words, ret, at_call>>
            /\ UNCHANGED mapper
            /\ UNCHANGED insert_locals
            /\ UNCHANGED find_locals
       ELSE InsertEntry(Head(words), "insert_words", Tail(words))

\* Faulty variant: line 50 with setdefault in place of get, which records
\* None for a word that is not in the dict.
GetIndex_SetDefault(w) ==
  /\ pc = "idle"
  /\ pc' = "done"
  /\ op' = "get_index"
  /\ word' = w
  /\ outcome' = "return"
  /\ ret' = <<get_index(w)>>
  /\ word_to_index' = IF w \in DOMAIN word_to_index THEN word_to_index
                       ELSE DictSet(word_to_index, w, None)
  /\ UNCHANGED <<words, at_call, table_size, table, index_to_word>>
  /\ UNCHANGED insert_locals
  /\ UNCHANGED find_locals

\* get_index, lines 48-50.
GetIndex(w) ==
  /\ pc = "idle"
  /\ pc' = "done"
  /\ op' = "get_index"
  /\ word' = w
  /\ outcome' = "return"
  /\ ret' = <<get_index(w)>>
  /\ UNCHANGED <<words, at_call>>
  /\ UNCHANGED mapper
  /\ UNCHANGED insert_locals
  /\ UNCHANGED find_locals

\* get_word, lines 52-54.
GetWord(i) ==
  /\ pc = "idle"
  /\ pc' = "done"
  /\ op' = "get_word"
  /\ word' = None
  /\ outcome' = "return"
  /\ ret' = <<i, get_word(i)>>
  /\ UNCHANGED <<words, at_call>>
  /\ UNCHANGED mapper
  /\ UNCHANGED insert_locals
  /\ UNCHANGED find_locals

\* The traversal for one word, lines 79-86: up to the while loop.
FindDifferent(w) ==
  /\ pc = "idle"
  /\ op' = "find_different"
  /\ word' = w
  /\ ret' = <<>>
  /\ found' = FALSE
  /\ iters' = 0
  /\ UNCHANGED <<words, at_call>>
  /\ UNCHANGED mapper
  /\ UNCHANGED insert_locals
  /\ IF NotInMapper(w)
       THEN /\ pc' = "done"
            /\ outcome' = "skipped"
            /\ hash_index' = None /\ step' = 0
            /\ probe_index' = None /\ start_probe' = None
       ELSE IF HashRaises \/ StepRaises
         THEN /\ pc' = "done"
              /\ outcome' = "ZeroDivisionError"
              /\ hash_index' = None /\ step' = 0
              /\ probe_index' = None /\ start_probe' = None
         ELSE /\ hash_index' = _compute_hash(w)
              /\ step' = _compute_step(w)
              /\ probe_index' = FirstProbe(_compute_hash(w), _compute_step(w))
              /\ start_probe' = FirstProbe(_compute_hash(w), _compute_step(w))
              /\ pc' = "find_while"
              /\ outcome' = "running"

\* The traversal, lines 87-96: one iteration of the while True loop.
FindWhile ==
  /\ pc = "find_while"
  /\ iters' = iters + 1
  /\ UNCHANGED <<op, word, words, hash_index, step, start_probe, at_call>>
  /\ UNCHANGED mapper
  /\ UNCHANGED insert_locals
  /\ IF IsDifferentWord(probe_index, word)
       THEN /\ found' = TRUE
            /\ ret' = <<table[probe_index], probe_index>>
            /\ pc' = "done"
            /\ outcome' = "found"
            /\ UNCHANGED probe_index
       ELSE /\ probe_index' = NextProbe(probe_index, step)
            /\ UNCHANGED <<found, ret>>
            /\ IF FullCycle(NextProbe(probe_index, step), start_probe)
                 THEN pc' = "done" /\ outcome' = "no_different_word"
                 ELSE pc' = "find_while" /\ outcome' = "running"

\* The operation has ended; the caller goes on.
Return ==
  /\ pc = "done"
  /\ pc' = "idle"
  /\ op' = "none"
  /\ word' = None
  /\ words' = <<>>
  /\ index' = None
  /\ original_index' = None
  /\ probe' = 0
  /\ hash_index' = None
  /\ step' = 0
  /\ probe_index' = None
  /\ start_probe' = None
  /\ found' = FALSE
  /\ examined' = 0
  /\ iters' = 0
  /\ outcome' = "none"
  /\ ret' = <<>>
  /\ at_call' = <<>>
  /\ UNCHANGED mapper

Next ==
  \/ \E w \in Words : Insert(w)
  \/ InsertWhile
  \/ \E ws \in Batches : InsertWords(ws)
  \/ ForWord
  \/ \E w \in Words : GetIndex(w)
  \/ \E i \in (-1)..MaxTableSize : GetWord(i)
  \/ \E w \in Words : FindDifferent(w)
  \/ FindWhile
  \/ Return

Spec == Init /\ [][Next]_vars

----------------------------------------------------------------------------
\* The hash derivation on its own: lines 82-84 (the calls of _compute_hash
\* and _compute_step and the first stride) for a word of any digest, on the
\* empty table of every size.

HashValues == 0..MaxHashValue

ComputeHashAndStep(w) ==
  /\ pc = "idle"
  /\ pc' = "done"
  /\ op' = "compute"
  /\ word' = w
  /\ ret' = <<>>
  /\ IF HashRaises \/ StepRaises
       THEN /\ outcome' = "ZeroDivisionError"
            /\ hash_index' = None /\ step' = 0 /\ probe_index' = None
       ELSE /\ outcome' = "return"
            /\ hash_index' = _compute_hash(w)
            /\ step' = _compute_step(w)
            /\ probe_index' = FirstProbe(_compute_hash(w), _compute_step(w))
  /\ UNCHANGED <<words, start_probe, found, iters, at_call>>
  /\ UNCHANGED mapper
  /\ UNCHANGED insert_locals

NextHash ==
  \/ \E w \in HashValues : ComputeHashAndStep(w)
  \/ Return

SpecHash == Init /\ [][NextHash]_vars

----------------------------------------------------------------------------
\* One whole call of insert as a function of the mapper m = <<table,
\* word_to_index, index_to_word>>: what a caller who calls insert word by
\* word, and goes on after an exception, is left with.

\* The while loop of lines 38-42 from probe p on: the index it leaves with,
\* or None when it raises ValueError.
RECURSIVE ProbeFrom(_, _, _)
ProbeFrom(t, orig, p) ==
  LET idx == (orig + p) % table_size
  IN  IF t[idx] = None THEN idx
      ELSE IF p + 1 >= table_size THEN None
      ELSE ProbeFrom(t, orig, p + 1)

\* insert(w), lines 33-46; an exception leaves m as it is.
InsertResult(m, w) ==
  IF w \in DOMAIN m[2] THEN m
  ELSE IF HashRaises THEN m
  ELSE LET i == ProbeFrom(m[1], _compute_hash(w), 0)
       IN  IF i = None THEN m
           ELSE <<[m[1] EXCEPT ![i] = w], DictSet(m[2], w, i),
                  DictSet(m[3], i, w)>>

\* insert called on each word of ws in order.
RECURSIVE InsertEach(_, _)
InsertEach(m, ws) ==
  IF ws = <<>> THEN m
  ELSE InsertEach(InsertResult(m, Head(ws)), Tail(ws))

----------------------------------------------------------------------------
\* Shorthands of the properties.

Slots == 0..(table_size - 1)

Inserted == DOMAIN word_to_index

Occupied(i) == table[i] # None

TableIsFull == \A i \in Slots : Occupied(i)

\* The position the traversal of word w starts from, and its n-th position.
Stride(w, n) == (_compute_hash(w) + (n + 1) * _compute_step(w)) % table_size

----------------------------------------------------------------------------
\* C1: any two distinct inserted words have distinct indices, no word is in
\* more than one slot of the table and no slot is recorded for more than
\* one word, whatever calls of insert and insert_words were made (the ones
\* that raised "Hash table is full!" included).
C1_Injective ==
  /\ \A k1, k2 \in Inserted :
       k1 # k2 => get_index(k1) # get_index(k2)
  /\ \A i, j \in Slots :
       (Occupied(i) /\ table[i] = table[j]) => i = j
  /\ \A i, j \in DOMAIN index_to_word :
       get_word(i) = get_word(j) => i = j

\* Two words with the same initial hash index are both in the table, and an
\* insert has just failed on the full table.
C1_Witness ==
  /\ pc = "done" /\ outcome = "ValueError"
  /\ table_size >= 2
  /\ \E k1, k2 \in Inserted :
       k1 # k2 /\ _compute_hash(k1) = _compute_hash(k2)

\* C2: table, word_to_index and index_to_word agree in every state:
\* word_to_index[k] = i iff table[i] = k iff index_to_word[i] = k, so that
\* get_word(get_index(k)) = k for every inserted word and
\* get_index(get_word(i)) = i for every occupied slot.
C2_Agree ==
  /\ Inserted \subseteq Words
  /\ DOMAIN index_to_word \subseteq Slots
  /\ \A k \in Words, i \in Slots :
       /\ (get_index(k) = i) <=> (table[i] = k)
       /\ (table[i] = k) <=> (get_word(i) = k)
  /\ \A k \in Inserted : get_word(get_index(k)) = k
  /\ \A i \in Slots : Occupied(i) => get_index(get_word(i)) = i

\* Some word sits in a slot other than its initial hash index.
C2_Witness ==
  /\ Cardinality(Inserted) >= 2
  /\ \E k \in Inserted : get_index(k) # _compute_hash(k)

\* C3: insert of a word that is already in word_to_index returns at once,
\* raises nothing (also when every slot is taken) and changes none of table,
\* word_to_index, index_to_word; the same holds for a word insert_words
\* takes from its list.
C3_InsertPresentNoOp ==
  [][ /\ \A w \in Inserted :
           Insert(w) =>
             /\ pc' = "done" /\ outcome' = "return"
             /\ examined' = 0
             /\ UNCHANGED <<table, word_to_index, index_to_word>>
      /\ (ForWord /\ words # <<>> /\ Head(words) \in Inserted) =>
             /\ pc' = "for_word" /\ outcome' = "return"
             /\ examined' = 0
             /\ UNCHANGED <<table, word_to_index, index_to_word>>
    ]_vars

\* insert of a word already present has returned on a table with every slot
\* taken.
C3_Witness ==
  /\ pc = "done" /\ op = "insert" /\ outcome = "return"
  /\ examined = 0
  /\ word \in Inserted
  /\ table_size >= 2 /\ TableIsFull

\* C4: an insert of a word not yet in the table returns normally whenever
\* some slot is None and raises "Hash table is full!" (ValueError) exactly
\* when every slot of the table is taken.  Stated on the state in which the
\* call has ended: a failed insert has left the table as it was, a
\* successful one has made the word present.
C4_FullExactlyWhenNoEmpty ==
  (pc = "done" /\ op = "insert") =>
    /\ (outcome = "ValueError") <=> (word \notin Inserted /\ TableIsFull)
    /\ (outcome = "return") <=> (word \in Inserted)

\* C5: no table of size 0 or 1 exists: a construction with table_size < 2
\* ends with InvalidConfig and no operation ever runs on such a table.
C5_SmallCapacityRejected ==
  table_size < 2 => (op = "new" /\ outcome = "InvalidConfig")

\* C6: a word once inserted keeps its index, its slot keeps the word, and a
\* slot once taken stays as it is, in every step of every operation.
C6_WriteOnce ==
  [][ /\ \A k \in Inserted :
           /\ k \in DOMAIN word_to_index'
           /\ word_to_index'[k] = word_to_index[k]
           /\ table'[word_to_index[k]] = k
      /\ \A i \in Slots : Occupied(i) => table'[i] = table[i]
      /\ \A i \in DOMAIN index_to_word :
           i \in DOMAIN index_to_word' /\ index_to_word'[i] = index_to_word[i]
      /\ table_size' = table_size
    ]_vars

\* An insert has just placed a word after probing past a taken slot, next to
\* words inserted earlier.
C6_Witness ==
  /\ pc = "done" /\ op = "insert" /\ outcome = "return"
  /\ probe >= 1
  /\ Cardinality(Inserted) >= 3

\* C7: the traversal for a word of the table (table_size >= 2) runs its loop
\* at most table_size times, whatever the step: while the loop is running
\* fewer than table_size iterations are behind it, and when it ends on the
\* full cycle probe_index is back at start_probe.
C7_TraversalBounded ==
  (op = "find_different" /\ table_size >= 2) =>
    /\ iters <= table_size
    /\ pc = "find_while" => iters < table_size
    /\ outcome = "no_different_word" =>
         (pc = "done" /\ probe_index = start_probe /\ iters >= 1)

\* The traversal has ended on a full cycle with a step that divides
\* table_size (so gcd(step, table_size) # 1), having left slots unvisited.
C7_Witness ==
  /\ pc = "done" /\ op = "find_different"
  /\ outcome = "no_different_word"
  /\ step > 1 /\ table_size % step = 0
  /\ iters * step = table_size
  /\ Cardinality(Inserted) >= 2

\* C8: insert evaluates table[index] at most table_size times: while its
\* loop is running fewer than table_size slots have been examined, so the
\* loop ends, by placing the word or by raising, within table_size
\* evaluations (also on a full table).
C8_ProbingBounded ==
  /\ examined <= table_size
  /\ pc = "insert_while" => (examined < table_size /\ probe = examined)
  /\ (pc = "done" /\ op = "insert" /\ outcome = "ValueError") =>
       examined = table_size

\* An insert has raised on a full table after examining every slot once.
C8_Witness ==
  /\ pc = "done" /\ op = "insert" /\ outcome = "ValueError"
  /\ table_size >= 3
  /\ examined = table_size
  /\ TableIsFull

\* C9: when the traversal for word finds (key2, slot2), key2 is not word,
\* table[slot2] is key2 (so slot2 is get_index(key2)), and slot2 is the first
\* position of start, start + s, start + 2s, ... (mod table_size) that holds
\* a word other than word.
C9_FoundIsFirstDifferent ==
  (pc = "done" /\ op = "find_different" /\ outcome = "found") =>
    LET key2 == ret[1]
        slot2 == ret[2]
    IN  /\ found
        /\ key2 # word /\ key2 \in Inserted
        /\ slot2 \in Slots
        /\ table[slot2] = key2
        /\ get_index(key2) = slot2
        /\ \E n \in 0..(table_size - 1) :
             /\ Stride(word, n) = slot2
             /\ \A m \in 0..(n - 1) :
                  ~ (Occupied(Stride(word, m)) /\ table[Stride(word, m)] # word)

\* The traversal has found a word after passing an empty slot and the slot
\* of the word itself.
C9_Witness ==
  /\ pc = "done" /\ op = "find_different" /\ outcome = "found"
  /\ iters >= 3
  /\ \E m \in 0..(iters - 2) : table[Stride(word, m)] = word
  /\ \E m \in 0..(iters - 2) : table[Stride(word, m)] = None

\* C10: the traversal for a word that is not in the table reports it as
\* skipped with no probe made (no index computed, no loop iteration) and
\* with table, word_to_index and index_to_word unchanged.
C10_AbsentSkipped ==
  [][ \A w \in Words \ Inserted :
         FindDifferent(w) =>
           /\ pc' = "done" /\ outcome' = "skipped"
           /\ iters' = 0 /\ probe_index' = None /\ start_probe' = None
           /\ UNCHANGED <<table, word_to_index, index_to_word>>
    ]_vars

\* The traversal for an absent word has been skipped on a table that holds
\* other words.
C10_Witness ==
  /\ pc = "done" /\ op = "find_different" /\ outcome = "skipped"
  /\ word \notin Inserted
  /\ Cardinality(Inserted) >= 2

\* C11: the traversal for a word of the table (table_size >= 2) ends with
\* "No different word found" exactly when no position of start, start + s,
\* ... (mod table_size) holds a word other than the word itself, and
\* otherwise finds one; in particular it ends so whenever the word is the
\* only one in the table.
C11_NoDifferentExactly ==
  (pc = "done" /\ op = "find_different" /\ word \in Inserted
     /\ table_size >= 2) =>
    LET other(n) == Occupied(Stride(word, n)) /\ table[Stride(word, n)] # word
        none_on_cycle == \A n \in 0..(table_size - 1) : ~ other(n)
    IN  /\ outcome \in {"found", "no_different_word"}
        /\ (outcome = "no_different_word") <=> none_on_cycle
        /\ (outcome = "no_different_word") <=> ~ found
        /\ Inserted = {word} => outcome = "no_different_word"

\* The traversal for the only word of a table of size 3 or more has walked
\* the whole ring and found nothing.
C11_Witness ==
  /\ pc = "done" /\ op = "find_different"
  /\ outcome = "no_different_word"
  /\ Inserted = {word}
  /\ table_size >= 3
  /\ iters = table_size

\* C12: an insert that places a word puts it in the first None slot of
\* origin, origin + 1, origin + 2, ... (mod table_size), origin being
\* _compute_hash(word): the slot is decided by the table and the origin
\* alone, _compute_step takes no part in it.
C12_FirstEmptyLinear ==
  [][ \A w \in Words \ Inserted :
         w \in DOMAIN word_to_index' =>
           LET origin == _compute_hash(w)
               at(n) == (origin + n) % table_size
           IN  \E n \in 0..(table_size - 1) :
                 /\ word_to_index'[w] = at(n)
                 /\ table'[at(n)] = w
                 /\ table[at(n)] = None
                 /\ \A m \in 0..(n - 1) : table[at(m)] # None
    ]_vars

\* A word with a step of 2 or more has been placed after a probe that
\* wrapped around the end of the table.
C12_Witness ==
  /\ pc = "done" /\ op = "insert" /\ outcome = "return"
  /\ table_size >= 3
  /\ probe >= 1
  /\ word \in Inserted
  /\ get_index(word) < _compute_hash(word)
  /\ _compute_step(word) >= 2

\* C13: word_to_index, index_to_word and the taken slots of table have the
\* same number of entries in every state, and never more than table_size.
C13_CountsAgree ==
  LET taken == {i \in Slots : Occupied(i)}
  IN  /\ Cardinality(DOMAIN word_to_index) = Cardinality(taken)
      /\ Cardinality(DOMAIN index_to_word) = Cardinality(taken)
      /\ Cardinality(taken) <= table_size

\* A table of size 3 or more filled to its last slot, between two calls.
C13_Witness ==
  /\ pc = "idle"
  /\ table_size >= 3
  /\ TableIsFull
  /\ Cardinality(DOMAIN word_to_index) = table_size

\* C14: the traversal, get_index and get_word leave table, word_to_index and
\* index_to_word as they are, whatever they report; the only steps that
\* change any of the three are those of an insert placing a word that was
\* not in the table.
C14_ReadOnly ==
  [][ /\ op' \in {"find_different", "get_index", "get_word"} =>
           UNCHANGED <<table_size, table, word_to_index, index_to_word>>
      /\ <<table_size, table, word_to_index, index_to_word>>' #
           <<table_size, table, word_to_index, index_to_word>> =>
           /\ op \in {"insert", "insert_words"}
           /\ pc = "insert_while"
           /\ outcome' = "return"
           /\ word \notin Inserted
           /\ word \in DOMAIN word_to_index'
    ]_vars

\* get_word has returned the word of a taken slot of a table with several
\* words.
C14_Witness ==
  /\ pc = "done" /\ op = "get_word"
  /\ Len(ret) = 2 /\ ret[2] # None
  /\ table[ret[1]] = ret[2]
  /\ Cardinality(Inserted) >= 2

\* C15: on a table of size 2 or more, for every digest value the hash index
\* lies in 0..table_size-1 and the step in 1..table_size-1 (no division by
\* zero); the step is not 0 modulo table_size, so one stride moves the
\* cursor off its slot.
C15_HashRanges ==
  (pc = "done" /\ op = "compute" /\ table_size >= 2) =>
    /\ outcome = "return"
    /\ hash_index \in 0..(table_size - 1)
    /\ step \in 1..(table_size - 1)
    /\ step % table_size # 0
    /\ probe_index \in 0..(table_size - 1)
    /\ probe_index # hash_index
    /\ \A p \in Slots : NextProbe(p, step) # p

\* The largest index and the largest step of a table of size 4 or more have
\* been derived from one digest.
C15_Witness ==
  /\ pc = "done" /\ op = "compute" /\ outcome = "return"
  /\ table_size >= 4
  /\ hash_index = table_size - 1
  /\ step = table_size - 1

\* C16: insert_words(ws) leaves table, word_to_index and index_to_word as
\* calling insert on each word of ws in order does, also when an insert
\* raises; after each word taken the three are what the inserts of the words
\* taken so far give.  A word of ws is in at most one slot, and its index is
\* the one it had after its first occurrence in ws was inserted (or had
\* before the call).
C16_InsertWordsIsInsertEach ==
  (op = "insert_words" /\ pc \in {"for_word", "done"}) =>
    LET m0 == <<at_call[1], at_call[2], at_call[3]>>
        ws == at_call[4]
        taken == IF pc = "done" THEN ws
                 ELSE SubSeq(ws, 1, Len(ws) - Len(words))
    IN  /\ <<table, word_to_index, index_to_word>> = InsertEach(m0, taken)
        /\ \A j \in 1..Len(taken) :
             LET w == taken[j]
                 mj == InsertEach(m0, SubSeq(ws, 1, j))
             IN  /\ Cardinality({i \in Slots : table[i] = w}) <= 1
                 /\ w \in DOMAIN mj[2] =>
                      (w \in Inserted /\ get_index(w) = mj[2][w])
                 /\ w \in DOMAIN m0[2] => get_index(w) = m0[2][w]

\* insert_words has returned from a list that names the same new word twice,
\* on a table where that word had to be probed past a taken slot.
C16_Witness ==
  /\ pc = "done" /\ op = "insert_words" /\ outcome = "return"
  /\ Len(at_call[4]) >= 2
  /\ at_call[4][1] = at_call[4][2]
  /\ at_call[4][1] \notin DOMAIN at_call[2]
  /\ at_call[4][1] \in Inserted
  /\ get_index(at_call[4][1]) # _compute_hash(at_call[4][1])

\* C17: an insert that raises "Hash table is full!" has changed nothing:
\* no step of the call up to and including the one that raises touches
\* table, word_to_index or index_to_word, and the word is then in none of
\* them.
C17_FailedInsertUnchanged ==
  [][ /\ pc' = "insert_while" =>
           UNCHANGED <<table, word_to_index, index_to_word>>
      /\ outcome' = "ValueError" =>
           /\ pc = "insert_while"
           /\ UNCHANGED <<table, word_to_index, index_to_word>>
           /\ word' \notin DOMAIN word_to_index'
           /\ \A i \in Slots : table'[i] # word'
           /\ \A i \in DOMAIN index_to_word' : index_to_word'[i] # word'
    ]_vars

\* An insert whose probe started past slot 0 and wrapped around has raised,
\* and its word is nowhere in the table.
C17_Witness ==
  /\ pc = "done" /\ op = "insert" /\ outcome = "ValueError"
  /\ table_size >= 2
  /\ original_index >= 1
  /\ word \notin Inserted
  /\ \A i \in Slots : table[i] # word

\* C18: for every inserted word, every slot on the unit-stride path from
\* its hash index up to, and not including, the slot it is stored in is
\* taken: no None between the two, in any state.
C18_ProbeChain ==
  \A k \in Inserted :
    LET origin == _compute_hash(k)
        dist == (get_index(k) + table_size - origin) % table_size
    IN  \A m \in 0..(dist - 1) : Occupied((origin + m) % table_size)

\* A word stored two or more slots past its hash index, around the end of
\* the table.
C18_Witness ==
  /\ pc = "idle"
  /\ \E k \in Inserted :
       /\ get_index(k) < _compute_hash(k)
       /\ (get_index(k) + table_size - _compute_hash(k)) % table_size >= 2

RECURSIVE GCD(_, _)
GCD(a, b) == IF b = 0 THEN a ELSE GCD(b, a % b)

\* C19: when the word is in the table, its step is coprime with table_size
\* and the table holds another word, the stride cycle visits every slot and
\* the traversal finds a word; "No different word found" with another word
\* in the table happens only when gcd(step, table_size) # 1.
C19_CoprimeFinds ==
  (pc = "done" /\ op = "find_different" /\ word \in Inserted
     /\ table_size >= 2 /\ Cardinality(Inserted) >= 2) =>
    LET s == _compute_step(word)
    IN  /\ GCD(s, table_size) = 1 =>
             /\ {Stride(word, n) : n \in 0..(table_size - 1)} = Slots
             /\ outcome = "found"
        /\ outcome = "no_different_word" => GCD(s, table_size) # 1

\* With a step of 2 or more, coprime with table_size, the traversal has
\* found the only other word of the table after passing other slots.
C19_Witness ==
  /\ pc = "done" /\ op = "find_different" /\ outcome = "found"
  /\ Cardinality(Inserted) = 2
  /\ step >= 2
  /\ GCD(step, table_size) = 1
  /\ iters >= 2

=============================================================================
